---- MODULE Spec2Model ----
(***************************************************************************)
(* S3toGS: one-directional sync of the objects under an S3 prefix to a GS  *)
(* bucket through a local staging file (src/S3toGS.go).                    *)
(*                                                                         *)
(* Strings (object keys, ETags, hex digests) are sequences of one-char     *)
(* strings; object bodies and MD5 digests are sequences of bytes.          *)
(***************************************************************************)
EXTENDS Integers, Sequences, FiniteSets, TLC

VARIABLES
    s3,             \* source bucket: key -> body, ETag (or NoObject)
    gs,             \* destination bucket: key -> body, content type (or NoObject)
    disk,           \* local files: path -> [body] (or NoFile)
    dirs,           \* local directories that exist
    dryRun,         \* flag -dryRun
    s3Prefix,       \* flag -s3Prefix
    pc,             \* position of main()
    s3List,         \* s3List.Contents
    idx,            \* position of the range loop in s3List.Contents
    amtTransferred, \* the byte accumulator
    handles,        \* open local file handles of the process
    exitCode,       \* <<status>> once the process has exited, <<>> while it runs
    reported,       \* <<amount>> once "Amount transferred" is printed, <<>> before
    decisions,      \* history: per listed object, what the stat returned and the branch taken
    ops,            \* history: the I/O operations of the current run, in order
    run,            \* number of the current invocation
    gs0,            \* history: the destination bucket when the current run started
    prevExit,       \* history: exitCode of the previous invocation
    prev            \* history: where the previous invocation stopped and what it left

vars == <<s3, gs, disk, dirs, dryRun, s3Prefix, pc, s3List, idx, amtTransferred,
          handles, exitCode, reported, decisions, ops, run, gs0, prevExit, prev>>

----------------------------------------------------------------------------
(* Bounds of the model *)

\* size of one part the downloader writes at its own offset
PartSize == 10
\* most keys one ListObjectsV2 response carries
MaxKeys == 2
\* invocations of the program in a row (SpecRerun)
MaxRuns == 2

(* Program constants *)

maxSlurp == 1048576

----------------------------------------------------------------------------
(* Strings and bytes *)

\* a key that holds no object, a path that holds no file
NoObject == [absent |-> TRUE]
NoFile == [missing |-> TRUE]
\* no invocation before this one
NoPrev == [first |-> TRUE]

Min(a, b) == IF a < b THEN a ELSE b

Quote == "\""
Slash == "/"

\* a body of n bytes, each b
Fill(n, b) == [k \in 1..n |-> b]

RECURSIVE SumBytes(_)
SumBytes(b) == IF b = <<>> THEN 0 ELSE b[1] + SumBytes(Tail(b))

\* The digest the stores compute over a body: one byte wide here, so that
\* distinct bodies (of equal or of different length) can share a digest.
MD5(body) == <<SumBytes(body) % 256>>

HexDigits == <<"0", "1", "2", "3", "4", "5", "6", "7", "8", "9", "a", "b", "c", "d", "e", "f">>

\* hex.EncodeToString: two lower-case digits per byte
RECURSIVE EncodeToString(_)
EncodeToString(bytes) ==
    IF bytes = <<>> THEN <<>>
    ELSE <<HexDigits[(bytes[1] \div 16) + 1], HexDigits[(bytes[1] % 16) + 1]>>
         \o EncodeToString(Tail(bytes))

ToLower(c) ==
    CASE c = "A" -> "a" [] c = "B" -> "b" [] c = "C" -> "c"
      [] c = "D" -> "d" [] c = "E" -> "e" [] c = "F" -> "f"
      [] OTHER -> c

ToUpper(c) ==
    CASE c = "a" -> "A" [] c = "b" -> "B" [] c = "c" -> "C"
      [] c = "d" -> "D" [] c = "e" -> "E" [] c = "f" -> "F"
      [] OTHER -> c

\* strings.EqualFold
EqualFold(a, b) ==
    /\ Len(a) = Len(b)
    /\ \A k \in 1..Len(a) : ToLower(a[k]) = ToLower(b[k])

\* strings.Replace(s, "\"", "", -1)
StripQuotes(s) == SelectSeq(s, LAMBDA c : c # Quote)

\* strings.HasPrefix, as the store applies the Prefix of a listing
HasPrefix(s, p) == Len(p) <= Len(s) /\ SubSeq(s, 1, Len(p)) = p

RECURSIVE LastSlash(_)
LastSlash(s) ==
    IF s = <<>> THEN 0
    ELSE IF s[Len(s)] = Slash THEN Len(s)
    ELSE LastSlash(SubSeq(s, 1, Len(s) - 1))

\* filepath.Base and filepath.Dir, for paths that do not end in a slash
Base(path) == SubSeq(path, LastSlash(path) + 1, Len(path))
Dir(path) == IF LastSlash(path) = 0 THEN <<".">> ELSE SubSeq(path, 1, LastSlash(path) - 1)
\* filepath.Join of a directory and a name
Join(dir, name) == dir \o <<Slash>> \o name

\* http.DetectContentType on the sniffed leading bytes: no bytes or text
\* bytes give text/plain, a binary byte gives application/octet-stream
IsBinaryByte(b) == b <= 8 \/ b = 11 \/ (14 <= b /\ b <= 26) \/ (28 <= b /\ b <= 31)
DetectContentType(data) ==
    IF \E k \in 1..Min(Len(data), 512) : IsBinaryByte(data[k])
    THEN "application/octet-stream"
    ELSE "text/plain; charset=utf-8"

----------------------------------------------------------------------------
(* The two stores and the flags *)

KeyA == <<"a", Slash, "x">>
KeyB == <<"b", Slash, "x">>
Keys == {KeyA, KeyB}

Prefixes == {<<>>, <<"a", Slash>>}

localDir == <<"t">>

Body10 == Fill(10, 67)
Body20 == Fill(20, 67)
\* ten bytes that share the digest of Body20
Body10x == Fill(10, 134)

\* ETags the source store hands out for a body: the quoted hex MD5 in lower
\* or in upper case, or the tag of a multipart upload, which is no MD5
ETagsOf(body) ==
    LET hex == EncodeToString(MD5(body)) IN
    { <<Quote>> \o hex \o <<Quote>>,
      <<Quote>> \o [k \in 1..Len(hex) |-> ToUpper(hex[k])] \o <<Quote>>,
      <<Quote>> \o hex \o <<"-", "2">> \o <<Quote>> }

S3Bodies == {Body10, Body20}
GSBodies == {Body10, Body10x, Body20}

S3Objects == {NoObject} \cup
    UNION { { [body |-> b, etag |-> e] : e \in ETagsOf(b) } : b \in S3Bodies }

GSObject(body) == [body |-> body, contentType |-> DetectContentType(body)]
GSObjects == {NoObject} \cup { GSObject(b) : b \in GSBodies }


----------------------------------------------------------------------------
(* The collaborators: source listing, destination stat *)

CharOrder == <<Slash, "a", "b", "x", "y">>
Rank(c) == CHOOSE k \in 1..Len(CharOrder) : CharOrder[k] = c

\* byte-wise order of two keys, the order of a listing
RECURSIVE KeyLess(_, _)
KeyLess(a, b) ==
    IF b = <<>> THEN FALSE
    ELSE IF a = <<>> THEN TRUE
    ELSE IF a[1] # b[1] THEN Rank(a[1]) < Rank(b[1])
    ELSE KeyLess(Tail(a), Tail(b))

RECURSIVE SortKeys(_)
SortKeys(ks) ==
    IF ks = {} THEN <<>>
    ELSE LET m == CHOOSE k \in ks : \A o \in ks \ {k} : KeyLess(k, o)
         IN <<m>> \o SortKeys(ks \ {m})

\* mutant: the listing without its prefix filter
ListWholeBucket(bucket, prefix) ==
    LET ks == SortKeys({k \in DOMAIN bucket : bucket[k] # NoObject})
        page == SubSeq(ks, 1, Min(Len(ks), MaxKeys))
    IN [n \in 1..Len(page) |->
            [Key |-> page[n], ETag |-> bucket[page[n]].etag, Size |-> Len(bucket[page[n]].body)]]

\* s3Client.ListObjectsV2(Bucket, Prefix).Contents: the objects whose key has
\* the prefix, in key order, at most MaxKeys of them in the one response read
ListObjectsV2(bucket, prefix) ==
    LET ks == SortKeys({k \in DOMAIN bucket : bucket[k] # NoObject /\ HasPrefix(k, prefix)})
        page == SubSeq(ks, 1, Min(Len(ks), MaxKeys))
    IN [n \in 1..Len(page) |->
            [Key |-> page[n], ETag |-> bucket[page[n]].etag, Size |-> Len(bucket[page[n]].body)]]

NoAttrs == [MD5 |-> <<>>, Size |-> -1]
\* gsClient.Bucket(b).Object(key).Attrs(ctx) when it succeeds
Attrs(bucket, key) == [MD5 |-> MD5(bucket[key].body), Size |-> Len(bucket[key].body)]

\* outcomes of a stat: (gsErr, gsAttrs). A missing object gives an error; an
\* object that is there gives its attributes, or an error of another kind
StatOutcomes(bucket, key) ==
    { <<TRUE, NoAttrs>> } \cup
    (IF bucket[key] = NoObject THEN {} ELSE { <<FALSE, Attrs(bucket, key)>> })

----------------------------------------------------------------------------
(* main: the decision of lines 128-181 *)

\* mutant: the hashes compared with ==, case and all
HashMatchesExact(s3MD5, gsAttrs) == s3MD5 = EncodeToString(gsAttrs.MD5)

HashMatches(s3MD5, gsAttrs) == EqualFold(s3MD5, EncodeToString(gsAttrs.MD5))

\* mutant: the size-match branch left out
BranchHashOnly(gsErr, s3MD5, s3Size, gsAttrs, dry) ==
    IF gsErr \/ ~HashMatches(s3MD5, gsAttrs) \/ s3Size # gsAttrs.Size
    THEN IF ~gsErr /\ HashMatches(s3MD5, gsAttrs) THEN "HashMatch"
         ELSE IF dry THEN "DryRun"
         ELSE "Transfer"
    ELSE "AlreadyInGS"

\* mutant: a destination at least as large as the source counts as a size match
BranchSizeLE(gsErr, s3MD5, s3Size, gsAttrs, dry) ==
    IF gsErr \/ ~HashMatches(s3MD5, gsAttrs) \/ s3Size # gsAttrs.Size
    THEN IF ~gsErr /\ HashMatches(s3MD5, gsAttrs) THEN "HashMatch"
         ELSE IF ~gsErr /\ s3Size <= gsAttrs.Size THEN "SizeMatch"
         ELSE IF dry THEN "DryRun"
         ELSE "Transfer"
    ELSE "AlreadyInGS"

\* mutant: the dry-run branch left out
BranchDryIgnored(gsErr, s3MD5, s3Size, gsAttrs, dry) ==
    IF gsErr \/ ~HashMatches(s3MD5, gsAttrs) \/ s3Size # gsAttrs.Size
    THEN IF ~gsErr /\ HashMatches(s3MD5, gsAttrs) THEN "HashMatch"
         ELSE IF ~gsErr /\ s3Size = gsAttrs.Size THEN "SizeMatch"
         ELSE "Transfer"
    ELSE "AlreadyInGS"

\* mutant: the outer condition without its size comparison
BranchOuterNoSize(gsErr, s3MD5, s3Size, gsAttrs, dry) ==
    IF gsErr \/ ~HashMatches(s3MD5, gsAttrs)
    THEN IF ~gsErr /\ HashMatches(s3MD5, gsAttrs) THEN "HashMatch"
         ELSE IF ~gsErr /\ s3Size = gsAttrs.Size THEN "SizeMatch"
         ELSE IF dry THEN "DryRun"
         ELSE "Transfer"
    ELSE "AlreadyInGS"

\* which branch of the if/else chain runs for one listed object
Branch(gsErr, s3MD5, s3Size, gsAttrs, dry) ==
    IF gsErr \/ ~HashMatches(s3MD5, gsAttrs) \/ s3Size # gsAttrs.Size
    THEN IF ~gsErr /\ HashMatches(s3MD5, gsAttrs) THEN "HashMatch"
         ELSE IF ~gsErr /\ s3Size = gsAttrs.Size THEN "SizeMatch"
         ELSE IF dry THEN "DryRun"
         ELSE "Transfer"
    ELSE "AlreadyInGS"

\* the SyncDecision of the design that a branch stands for
SyncDecision(branch) ==
    CASE branch \in {"HashMatch", "AlreadyInGS"} -> "Skip-HashMatch"
      [] branch = "SizeMatch" -> "Skip-SizeMatch"
      [] branch = "DryRun" -> "Transfer-DryRun"
      [] branch = "Transfer" -> "Transfer"

\* mutant: the dry-run branch does not count its bytes
AccumulateTransferOnly(amt, branch, s3Size) ==
    IF branch = "Transfer" THEN amt + s3Size ELSE amt

\* lines 137 and 140: the two branches that add the object's size
Accumulate(amt, branch, s3Size) ==
    IF branch \in {"DryRun", "Transfer"} THEN amt + s3Size ELSE amt

key == s3List[idx]
localFilepath == Join(localDir, Base(key.Key))

Op(name, ok) == [op |-> name, key |-> key.Key, ok |-> ok]

\* log.Fatal: the process exits with status 1 on the spot; the panic(Exit{1})
\* behind it and the deferred calls never run
Fatal ==
    /\ pc' = "Fatal"
    /\ exitCode' = <<1>>

\* the range loop moves to the next element, or ends
NextObject ==
    /\ idx' = idx + 1
    /\ pc' = IF idx + 1 > Len(s3List) THEN "Reporting" ELSE "Deciding"

\* the state when main starts on buckets over the keys ks, which hold objects
\* out of srcs and dsts
InitWith(ks, srcs, dsts) ==
    /\ s3 \in [ks -> srcs]
    /\ gs \in [ks -> dsts]
    /\ disk = [p \in {Join(localDir, Base(k)) : k \in ks} |-> NoFile]
    /\ dirs = {}
    /\ dryRun \in BOOLEAN
    /\ s3Prefix \in Prefixes
    /\ pc = "Start"
    /\ s3List = <<>>
    /\ idx = 0
    /\ amtTransferred = 0
    /\ handles = 0
    /\ exitCode = <<>>
    /\ reported = <<>>
    /\ decisions = <<>>
    /\ ops = <<>>
    /\ run = 1
    /\ gs0 = gs
    /\ prevExit = <<>>
    /\ prev = NoPrev

Init == InitWith(Keys, S3Objects, GSObjects)

\* a third key, in the directory of KeyA: more keys than one response carries
KeyC == <<"a", Slash, "y">>
Keys3 == Keys \cup {KeyC}

\* source objects with the plain ETag, the quoted lower-case MD5
S3ObjectsPlain ==
    { [body |-> b, etag |-> <<Quote>> \o EncodeToString(MD5(b)) \o <<Quote>>] : b \in S3Bodies }

InitList == InitWith(Keys3, S3ObjectsPlain, {NoObject, GSObject(Body10)})

\* lines 91-106: the clients are set up; storage.NewClient may fail
NewClient ==
    /\ pc = "Start"
    /\ \/ pc' = "Listing" /\ UNCHANGED exitCode
       \/ Fatal
    /\ UNCHANGED <<s3, gs, disk, dirs, dryRun, s3Prefix, s3List, idx, amtTransferred,
                   handles, reported, decisions, ops, run, gs0, prevExit, prev>>

\* lines 108-120: the listing, the accumulator, the start of the loop
List ==
    /\ pc = "Listing"
    /\ \/ /\ s3List' = ListObjectsV2(s3, s3Prefix)
          /\ amtTransferred' = 0
          /\ idx' = 1
          /\ pc' = IF s3List' = <<>> THEN "Reporting" ELSE "Deciding"
          /\ UNCHANGED exitCode
       \/ /\ Fatal
          /\ UNCHANGED <<s3List, amtTransferred, idx>>
    /\ UNCHANGED <<s3, gs, disk, dirs, dryRun, s3Prefix, handles, reported,
                   decisions, ops, run, gs0, prevExit, prev>>

\* lines 121-141, 179-181: stat the destination, compare, skip or count
Decide ==
    /\ pc = "Deciding"
    /\ \E st \in StatOutcomes(gs, key.Key) :
        LET gsErr == st[1]
            gsAttrs == st[2]
            s3MD5 == StripQuotes(key.ETag)
            s3Size == key.Size
            br == Branch(gsErr, s3MD5, s3Size, gsAttrs, dryRun)
            amt == Accumulate(amtTransferred, br, s3Size)
        IN /\ amtTransferred' = amt
           /\ decisions' = Append(decisions,
                  [key |-> key.Key, etag |-> key.ETag, size |-> s3Size, gsErr |-> gsErr,
                   gsAttrs |-> gsAttrs, branch |-> br,
                   before |-> amtTransferred, after |-> amt])
           /\ IF br = "Transfer"
              THEN pc' = "Staging" /\ UNCHANGED idx
              ELSE NextObject
    /\ UNCHANGED <<s3, gs, disk, dirs, dryRun, s3Prefix, s3List, handles, exitCode,
                   reported, ops, run, gs0, prevExit, prev>>


\* mutant: the file is opened without truncating what it holds
CreateKeep(old) == IF old = NoFile THEN [body |-> <<>>] ELSE old

\* line 148: os.Create makes the file, or truncates the one that is there
Create(old) == [body |-> <<>>]

\* lines 142-153: os.MkdirAll of the directory, os.Create of the staged file
Stage ==
    /\ pc = "Staging"
    /\ \/ /\ Fatal                                   \* MkdirAll fails
          /\ ops' = Append(ops, Op("mkdir", FALSE))
          /\ UNCHANGED <<dirs, disk, handles>>
       \/ /\ Fatal                                   \* Create fails
          /\ dirs' = dirs \cup {Dir(localFilepath)}
          /\ ops' = ops \o <<Op("mkdir", TRUE), Op("create", FALSE)>>
          /\ UNCHANGED <<disk, handles>>
       \/ /\ dirs' = dirs \cup {Dir(localFilepath)}
          /\ disk' = [disk EXCEPT ![localFilepath] = Create(disk[localFilepath])]
          /\ handles' = handles + 1
          /\ ops' = ops \o <<Op("mkdir", TRUE), Op("create", TRUE)>>
          /\ pc' = "Downloading"
          /\ UNCHANGED exitCode
    /\ UNCHANGED <<s3, gs, dryRun, s3Prefix, s3List, idx, amtTransferred, reported,
                   decisions, run, gs0, prevExit, prev>>

\* the parts of a body of n bytes the downloader fetches, each written at its offset
NumParts(n) == (n + PartSize - 1) \div PartSize
PartOf(k) == ((k - 1) \div PartSize) + 1

\* the staged file after the parts in `written` have arrived: it reaches to the
\* end of the last part written, and a part that never arrived reads as zeros
FileAfter(body, written) ==
    LET ends == { Min(p * PartSize, Len(body)) : p \in written }
        size == IF written = {} THEN 0 ELSE CHOOSE e \in ends : \A o \in ends : o <= e
    IN [k \in 1..size |-> IF PartOf(k) \in written THEN body[k] ELSE 0]

\* the file that held `old` after the parts in `written` were written into it
\* at their offsets: what no part covers keeps its bytes, a gap reads as zeros
WriteParts(old, body, written) ==
    LET new == FileAfter(body, written)
        size == IF Len(old) > Len(new) THEN Len(old) ELSE Len(new)
    IN [k \in 1..size |->
            IF k <= Len(new) /\ PartOf(k) \in written THEN new[k]
            ELSE IF k <= Len(old) THEN old[k]
            ELSE 0]

\* lines 155-161: s3Downloader.Download(file, ...); its error is not looked at
Download ==
    /\ pc = "Downloading"
    /\ \E written \in SUBSET (1..NumParts(Len(s3[key.Key].body))) :
        /\ disk' = [disk EXCEPT ![localFilepath] =
                    [body |-> WriteParts(disk[localFilepath].body, s3[key.Key].body, written)]]
        /\ ops' = Append(ops, Op("download", written = 1..NumParts(Len(s3[key.Key].body))))
    /\ pc' = "Uploading"
    /\ UNCHANGED <<s3, gs, dirs, dryRun, s3Prefix, s3List, idx, amtTransferred, handles,
                   exitCode, reported, decisions, run, gs0, prevExit, prev>>

\* writeToGS, lines 66-74: the leading bytes are sniffed for the content type,
\* then the sniffed bytes and the rest of the file are written
Slurp(content) == SubSeq(content, 1, Min(Len(content), maxSlurp))
Written(content) ==
    [body |-> Slurp(content) \o SubSeq(content, Len(Slurp(content)) + 1, Len(content)),
     contentType |-> DetectContentType(Slurp(content))]

\* lines 163-167 and writeToGS: every error in writeToGS ends in log.Fatal
Upload ==
    /\ pc = "Uploading"
    /\ \/ /\ Fatal                                   \* os.Open fails
          /\ ops' = Append(ops, Op("upload", FALSE))
          /\ UNCHANGED <<gs, handles>>
       \/ /\ disk[localFilepath] # NoFile            \* reading, writing or closing fails
          /\ Fatal
          /\ handles' = handles + 1
          /\ ops' = Append(ops, Op("upload", FALSE))
          /\ UNCHANGED gs
       \/ /\ disk[localFilepath] # NoFile
          /\ gs' = [gs EXCEPT ![key.Key] = Written(disk[localFilepath].body)]
          /\ handles' = handles + 1
          /\ ops' = Append(ops, Op("upload", TRUE))
          /\ pc' = "Removing"
          /\ UNCHANGED exitCode
    /\ UNCHANGED <<s3, disk, dirs, dryRun, s3Prefix, s3List, idx, amtTransferred,
                   reported, decisions, run, gs0, prevExit, prev>>

\* lines 169-171: os.Remove(file.Name()); its error is not looked at
Remove ==
    /\ pc = "Removing"
    /\ \/ /\ disk' = [disk EXCEPT ![localFilepath] = NoFile]
          /\ ops' = Append(ops, Op("remove", TRUE))
       \/ /\ ops' = Append(ops, Op("remove", FALSE))
          /\ UNCHANGED disk
    /\ pc' = "Verifying"
    /\ UNCHANGED <<s3, gs, dirs, dryRun, s3Prefix, s3List, idx, amtTransferred, handles,
                   exitCode, reported, decisions, run, gs0, prevExit, prev>>

\* mutant: the size of the uploaded object is not compared
UploadFailedErrOnly(gsErr, s3Size, gsAttrs) == gsErr

\* line 174: the condition under which the upload counts as failed
UploadFailed(gsErr, s3Size, gsAttrs) == gsErr \/ s3Size # gsAttrs.Size

\* lines 173-177: the destination is stat-ed again and its size compared
Verify ==
    /\ pc = "Verifying"
    /\ \E st \in StatOutcomes(gs, key.Key) :
        /\ ops' = Append(ops, Op("verify", ~UploadFailed(st[1], key.Size, st[2])))
        /\ IF UploadFailed(st[1], key.Size, st[2])
           THEN Fatal /\ UNCHANGED idx
           ELSE NextObject /\ UNCHANGED exitCode
    /\ UNCHANGED <<s3, gs, disk, dirs, dryRun, s3Prefix, s3List, amtTransferred, handles,
                   reported, decisions, run, gs0, prevExit, prev>>

\* line 184 and the deferred calls: the amount is printed, the deferred
\* file.Close calls run, handleExit exits with status 0
Report ==
    /\ pc = "Reporting"
    /\ reported' = <<amtTransferred>>
    /\ handles' = 0
    /\ exitCode' = <<0>>
    /\ pc' = "Done"
    /\ UNCHANGED <<s3, gs, disk, dirs, dryRun, s3Prefix, s3List, idx, amtTransferred,
                   decisions, ops, run, gs0, prevExit, prev>>

\* the program is invoked again with the same flags: a new process, the two
\* buckets and the local disk as the last one left them
Rerun ==
    /\ pc \in {"Done", "Fatal", "Killed"}
    /\ run < MaxRuns
    /\ run' = run + 1
    /\ prevExit' = exitCode
    /\ gs0' = gs
    /\ pc' = "Start"
    /\ s3List' = <<>>
    /\ idx' = 0
    /\ amtTransferred' = 0
    /\ handles' = 0
    /\ exitCode' = <<>>
    /\ reported' = <<>>
    /\ decisions' = <<>>
    /\ ops' = <<>>
    /\ prev' = [pc |-> pc, staged |-> {p \in DOMAIN disk : disk[p] # NoFile}]
    /\ UNCHANGED <<s3, gs, disk, dirs, dryRun, s3Prefix>>

\* after a dry run the program is invoked in normal mode on the same buckets;
\* what the dry run decided and reported is kept for comparison
RerunNormal ==
    /\ pc = "Done"
    /\ dryRun
    /\ run < MaxRuns
    /\ dryRun' = FALSE
    /\ run' = run + 1
    /\ prevExit' = exitCode
    /\ prev' = [pc |-> pc, staged |-> {p \in DOMAIN disk : disk[p] # NoFile},
                decisions |-> decisions, reported |-> reported]
    /\ gs0' = gs
    /\ pc' = "Start"
    /\ s3List' = <<>>
    /\ idx' = 0
    /\ amtTransferred' = 0
    /\ handles' = 0
    /\ exitCode' = <<>>
    /\ reported' = <<>>
    /\ decisions' = <<>>
    /\ ops' = <<>>
    /\ UNCHANGED <<s3, gs, disk, dirs, s3Prefix>>

\* an upload cut short: the destination may hold a leading piece of the file
PartialUploads(content) ==
    { Written(SubSeq(content, 1, n * PartSize)) :
        n \in {m \in 0..NumParts(Len(content)) : m * PartSize < Len(content)} }

\* the process is terminated from outside, at any point of main; whatever is
\* on disk stays, and an upload under way may leave a partial object
Kill ==
    /\ pc \notin {"Done", "Fatal", "Killed"}
    /\ pc' = "Killed"
    /\ exitCode' = <<137>>
    /\ IF pc = "Uploading" /\ disk[localFilepath] # NoFile
       THEN \E o \in {gs[key.Key]} \cup PartialUploads(disk[localFilepath].body) :
                gs' = [gs EXCEPT ![key.Key] = o]
       ELSE UNCHANGED gs
    /\ UNCHANGED <<s3, disk, dirs, dryRun, s3Prefix, s3List, idx, amtTransferred, handles,
                   reported, decisions, ops, run, gs0, prevExit, prev>>

Next ==
    \/ NewClient
    \/ List
    \/ Decide
    \/ Stage
    \/ Download
    \/ Upload
    \/ Remove
    \/ Verify
    \/ Report

Spec == Init /\ [][Next]_vars


\* the program run again and again on what the last run left behind
NextRerun ==
    \/ Next
    \/ Rerun

SpecRerun == Init /\ [][NextRerun]_vars


\* a dry run, then a normal run on the same buckets
InitDry == Init /\ dryRun

NextPair ==
    \/ Next
    \/ RerunNormal

SpecPair == InitDry /\ [][NextPair]_vars

\* normal runs that may be terminated from outside, and runs after them
InitKill ==
    /\ InitWith(Keys, S3ObjectsPlain, {NoObject, GSObject(Body10)})
    /\ ~dryRun
    /\ s3Prefix = <<>>

NextKill ==
    \/ Next
    \/ Kill
    \/ Rerun

SpecKill == InitKill /\ [][NextKill]_vars

\* one run over three source objects
SpecList == InitList /\ [][Next]_vars

----------------------------------------------------------------------------
(* What the properties below read off the history *)

Decided == 1..Len(decisions)

\* the stat of decision d succeeded and the hashes are equal up to case
HashEq(d) == ~d.gsErr /\ EqualFold(StripQuotes(d.etag), EncodeToString(d.gsAttrs.MD5))
\* the stat of decision d succeeded and the sizes are equal
SizeEq(d) == ~d.gsErr /\ d.size = d.gsAttrs.Size

Skipped(d) == SyncDecision(d.branch) \in {"Skip-HashMatch", "Skip-SizeMatch"}
Transferred(d) == SyncDecision(d.branch) \in {"Transfer", "Transfer-DryRun"}

\* no staging, download, upload, removal or verification was made for key k
NoIO(k) == \A n \in 1..Len(ops) : ops[n].key # k

\* decision d had no effect besides the notice
NoEffect(d) == NoIO(d.key) /\ d.after = d.before /\ gs[d.key] = gs0[d.key]

RECURSIVE SumTransferred(_)
SumTransferred(ds) ==
    IF ds = <<>> THEN 0
    ELSE (IF Transferred(ds[1]) THEN ds[1].size ELSE 0) + SumTransferred(Tail(ds))

----------------------------------------------------------------------------
(* C2: an object whose destination stat succeeds and whose quote-stripped     *)
(* source hash equals the hex destination hash, case ignored, is decided     *)
(* Skip-HashMatch whatever the two sizes are: nothing is staged, downloaded  *)
(* or uploaded for it and the accumulator is not changed, dry run or not.    *)
C2_HashMatchSkips ==
    \A n \in Decided :
        HashEq(decisions[n]) =>
            /\ SyncDecision(decisions[n].branch) = "Skip-HashMatch"
            /\ NoEffect(decisions[n])

C2_Witness ==
    \E n \in Decided :
        /\ HashEq(decisions[n])
        /\ StripQuotes(decisions[n].etag) # EncodeToString(decisions[n].gsAttrs.MD5)
        /\ decisions[n].size # decisions[n].gsAttrs.Size
        /\ ~dryRun
        /\ pc = "Done"

(* C3: an object whose destination stat succeeds, whose hash differs from    *)
(* the destination's and whose size equals the destination's is decided     *)
(* Skip-SizeMatch: no staging, download or upload, accumulator unchanged,    *)
(* dry run or not.                                                           *)
C3_SizeMatchSkips ==
    \A n \in Decided :
        (~decisions[n].gsErr /\ ~HashEq(decisions[n]) /\ SizeEq(decisions[n])) =>
            /\ SyncDecision(decisions[n].branch) = "Skip-SizeMatch"
            /\ NoEffect(decisions[n])

C3_Witness ==
    \E n \in Decided :
        /\ ~decisions[n].gsErr /\ ~HashEq(decisions[n]) /\ SizeEq(decisions[n])
        /\ gs[decisions[n].key].body # s3[decisions[n].key].body
        /\ ~dryRun
        /\ pc = "Done"

(* C4: the decision is Transfer (Transfer-DryRun in a dry run) exactly when  *)
(* the destination stat returned an error, whatever the destination really  *)
(* holds, or the stat succeeded and both hash and size differ; in every      *)
(* other case the decision is a Skip.                                        *)
C4_TransferExactly ==
    \A n \in Decided :
        LET d == decisions[n]
            transfer == d.gsErr \/ (~HashEq(d) /\ ~SizeEq(d))
        IN /\ transfer => SyncDecision(d.branch) = (IF dryRun THEN "Transfer-DryRun" ELSE "Transfer")
           /\ ~transfer => Skipped(d)

\* a stat error on an object that is at the destination with the source's bytes
C4_Witness ==
    \E n \in Decided :
        /\ decisions[n].gsErr
        /\ gs0[decisions[n].key] # NoObject
        /\ gs0[decisions[n].key].body = s3[decisions[n].key].body
        /\ decisions[n].branch = "Transfer"

(* C5: in a dry run nothing is ever written: for no listed object is a local *)
(* file or directory created, a source object downloaded, a destination     *)
(* object written or a verification stat made; the destination at the end   *)
(* is the destination at the start.                                          *)
C5_DryRunWritesNothing ==
    dryRun =>
        /\ ops = <<>>
        /\ dirs = {}
        /\ \A p \in DOMAIN disk : disk[p] = NoFile
        /\ handles = 0
        /\ gs = gs0

C5_Witness ==
    /\ dryRun
    /\ pc = "Done"
    /\ \E n \in Decided : decisions[n].branch = "DryRun"
    /\ \E n \in Decided : Skipped(decisions[n])


(* C6 (as amended): the accumulator is at every moment the sum of the source *)
(* sizes of the objects decided Transfer or Transfer-DryRun so far, so the   *)
(* total reported is that sum over the listing; skipped objects add zero     *)
(* and the accumulator never decreases. With source a/x (H1, 10) and b/x     *)
(* (H2, 20) and a destination holding only a/x (H1, 10), the total reported  *)
(* is 20 when the stat of a/x succeeds.                                      *)
ScenarioC6 ==
    /\ Len(s3List) = 2
    /\ s3List[1].Key = KeyA /\ s3List[1].Size = 10
    /\ s3List[2].Key = KeyB /\ s3List[2].Size = 20
    /\ gs0[KeyA] # NoObject
    /\ Len(gs0[KeyA].body) = 10
    /\ EqualFold(StripQuotes(s3List[1].ETag), EncodeToString(MD5(gs0[KeyA].body)))
    /\ gs0[KeyB] = NoObject

AmtIsSum ==
    /\ amtTransferred = SumTransferred(decisions)
    /\ \A n \in Decided : Skipped(decisions[n]) => decisions[n].after = decisions[n].before
    /\ pc = "Done" => /\ reported = <<SumTransferred(decisions)>>
                      /\ Len(decisions) = Len(s3List)
    /\ reported # <<>> => pc = "Done"

\* C6 (as amended): the accumulator is the sum of the transferred sizes, never
\* decreases, and the scenario reports 20 when the stat of a/x succeeds
C6_TotalIsSum ==
    /\ [](AmtIsSum)
    /\ []((ScenarioC6 /\ pc = "Done" /\ ~decisions[1].gsErr) => reported = <<20>>)
    /\ [][amtTransferred' >= amtTransferred]_vars

C6_Witness ==
    /\ ScenarioC6
    /\ pc = "Done"
    /\ ~dryRun
    /\ decisions[1].branch = "AlreadyInGS"
    /\ decisions[2].branch = "Transfer"
    /\ reported = <<20>>

\* C6 as first stated: in the scenario the total reported is 20
C6_Original == (ScenarioC6 /\ pc = "Done") => reported = <<20>>


(* C7: after the upload of an object decided Transfer the destination is     *)
(* stat-ed again; if the stat fails or the size differs from the source      *)
(* object's, the run is fatal (exit status 1, nothing reported) and no       *)
(* further object is decided; if the stat succeeds with an equal size the    *)
(* run goes on to the next object.                                           *)
VerifyAborts ==
    /\ pc' = "Fatal"
    /\ exitCode' = <<1>>
    /\ reported' = <<>>
    /\ decisions' = decisions
    /\ idx' = idx

VerifyContinues ==
    /\ idx' = idx + 1
    /\ pc' = IF idx = Len(s3List) THEN "Reporting" ELSE "Deciding"
    /\ exitCode' = <<>>
    /\ decisions' = decisions

\* C7: the verification after an upload aborts the run or lets it continue
C7_VerifyOrAbort ==
    /\ [](pc = "Verifying" =>
            /\ decisions[idx].branch = "Transfer"
            /\ \E n \in 1..Len(ops) : ops[n] = Op("upload", TRUE))
    /\ [](pc = "Fatal" => exitCode = <<1>> /\ reported = <<>>)
    /\ [][pc = "Verifying" =>
            IF gs[key.Key] = NoObject \/ Len(gs[key.Key].body) # key.Size
            THEN VerifyAborts
            ELSE VerifyAborts \/ VerifyContinues]_vars
    /\ [][pc # "Fatal"]_vars

\* the run died in the verification of an object whose upload came out short
C7_Witness ==
    /\ pc = "Fatal"
    /\ ops # <<>>
    /\ ops[Len(ops)] = Op("verify", FALSE)
    /\ gs[key.Key] # NoObject
    /\ Len(gs[key.Key].body) # key.Size
    /\ idx < Len(s3List)

(* C8: a run never reaches Reporting with a corrupted replica of an object   *)
(* it transferred: for every object decided Transfer the bytes at the        *)
(* destination key equal the bytes of the source object.                     *)
C8_NoCorruptReplica ==
    pc \in {"Reporting", "Done"} =>
        \A n \in Decided :
            decisions[n].branch = "Transfer" =>
                /\ gs[decisions[n].key] # NoObject
                /\ gs[decisions[n].key].body = s3[decisions[n].key].body

(* C9 (as amended): an object is skipped only if its destination stat        *)
(* succeeded and its hash or its size equals the source object's; it is      *)
(* taken as already in the destination only if both are equal.               *)
C9_SkipOnlyOnMatch ==
    \A n \in Decided :
        /\ Skipped(decisions[n]) => (HashEq(decisions[n]) \/ SizeEq(decisions[n]))
        /\ decisions[n].branch = "AlreadyInGS" => (HashEq(decisions[n]) /\ SizeEq(decisions[n]))

\* an object skipped on its size with another hash and other bytes
C9_Witness ==
    \E n \in Decided :
        /\ decisions[n].branch = "SizeMatch"
        /\ ~HashEq(decisions[n])
        /\ MD5(gs[decisions[n].key].body) # MD5(s3[decisions[n].key].body)
        /\ pc = "Done"

\* C9 as first stated: skipped only if both the hash and the size match
C9_Original ==
    \A n \in Decided :
        Skipped(decisions[n]) => (HashEq(decisions[n]) /\ SizeEq(decisions[n]))

(* C10: a failed download is fatal: the run aborts with a non-zero exit      *)
(* status, the staged file is not uploaded and no later object is processed. *)
C10_DownloadFailureFatal ==
    \A n \in 1..Len(ops) :
        (ops[n].op = "download" /\ ~ops[n].ok) =>
            /\ pc = "Fatal"
            /\ exitCode = <<1>>
            /\ n = Len(ops)


(* C1 (as amended): when a run that is no dry run has reached Reporting and  *)
(* the program is run again on the unchanged source and destination, the     *)
(* second run decides Skip, with no effect, for every listed object whose    *)
(* destination stat succeeds; when every stat of the second run succeeds it  *)
(* stages, downloads and uploads nothing, leaves the destination unchanged   *)
(* and reports 0 bytes.                                                      *)
SecondRun == run > 1 /\ prevExit = <<0>> /\ ~dryRun

\* C1 (as amended): the second run skips every object whose stat succeeds
C1_RerunSkips ==
    SecondRun =>
        /\ \A n \in Decided :
              ~decisions[n].gsErr => (Skipped(decisions[n]) /\ NoEffect(decisions[n]))
        /\ (\A n \in Decided : ~decisions[n].gsErr) =>
              /\ ops = <<>>
              /\ gs = gs0
              /\ amtTransferred = 0
              /\ pc = "Done" => reported = <<0>>

\* the second run is over, after a first run that staged and transferred
C1_Witness ==
    /\ SecondRun
    /\ dirs # {}
    /\ pc = "Done"
    /\ Len(decisions) = 2
    /\ \A n \in Decided : ~decisions[n].gsErr
    /\ reported = <<0>>

\* C1 as first stated: the second run skips every listed object
C1_Original ==
    SecondRun =>
        /\ \A n \in Decided : Skipped(decisions[n])
        /\ ops = <<>>
        /\ gs = gs0
        /\ pc = "Done" => reported = <<0>>


----------------------------------------------------------------------------
\* a step of the pipeline that failed
FailedStep(o) == ~o.ok /\ o.op \in {"mkdir", "create", "download", "upload", "verify"}

\* the position of key k in the listing
KeyIndex(k) == CHOOSE n \in 1..Len(s3List) : s3List[n].Key = k

InPipeline == pc \in {"Staging", "Downloading", "Uploading", "Removing", "Verifying"}

(* C11: once a step of an object fails (staging, download, upload or         *)
(* verification) or the listing fails, nothing is done on any later object   *)
(* of the listing and Reporting is never reached; a failed listing aborts    *)
(* before any transfer.                                                      *)
C11_NoContinuation ==
    /\ \A n \in 1..Len(ops) :
          FailedStep(ops[n]) =>
              /\ \A m \in n..Len(ops) : ops[m].key = ops[n].key
              /\ Len(decisions) <= KeyIndex(ops[n].key)
              /\ pc \notin {"Reporting", "Done"}
    /\ (pc = "Fatal" /\ decisions = <<>>) => (ops = <<>> /\ gs = gs0)

(* C12: the exit status is 0 exactly when the run reaches Reporting, and is  *)
(* non-zero for every run in which the client construction, the listing, or  *)
(* a staging, download, upload or verification step failed.                  *)
C12_ExitStatus ==
    exitCode # <<>> =>
        /\ exitCode = <<0>> <=> reported # <<>>
        /\ pc = "Fatal" => exitCode = <<1>>
        /\ (\E n \in 1..Len(ops) : FailedStep(ops[n])) => exitCode # <<0>>

(* C15: the sync goes one way and propagates no deletion: the source is      *)
(* never modified, no destination object is ever deleted, the only           *)
(* destination keys written are keys of listed source objects decided        *)
(* Transfer, and every other destination object is as the run found it.      *)
TransferDecided(k) ==
    /\ ~dryRun
    /\ s3[k] # NoObject
    /\ HasPrefix(k, s3Prefix)
    /\ \E n \in Decided :
          /\ decisions[n].key = k
          /\ decisions[n].gsErr \/ (~HashEq(decisions[n]) /\ ~SizeEq(decisions[n]))

C16_ReleaseAfterVerify ==
    /\ \A n \in 1..Len(ops) :
          ops[n].op = "remove" =>
              \E m \in 1..(n - 1) : ops[m] = [op |-> "verify", key |-> ops[n].key, ok |-> TRUE]
    /\ (pc = "Fatal" /\ \E n \in 1..Len(ops) : ops[n] = Op("create", TRUE)) =>
          disk[localFilepath] # NoFile

(* C19: the file handle opened for an object is closed before the next       *)
(* object is processed: while an object is decided no handle of an earlier   *)
(* object is open, and while it is transferred only its own handles are (the *)
(* staged file and the reader writeToGS opens on it).                        *)
C19_HandlesClosed ==
    /\ pc = "Deciding" => handles = 0
    /\ InPipeline => handles <= 2

(* C20: flattening the staging path to the base name mixes no objects up:    *)
(* the destination key written is the full source key, and it receives bytes *)
(* of its own source object only (or the zeros of a part that never came),   *)
(* also when another listed key shares the base name and the staging path.   *)
OwnBytes(k) ==
    { FileAfter(s3[k].body, w) : w \in SUBSET (1..NumParts(Len(s3[k].body))) }

\* C20: each destination key gets the bytes of its own source object
C20_NoMixing ==
    /\ [][\A k \in DOMAIN gs :
            gs'[k] # gs[k] => (k = key.Key /\ gs'[k].body \in OwnBytes(k))]_vars
    /\ [](pc = "Downloading" => disk[localFilepath] = [body |-> <<>>])
    /\ [](pc \in {"Removing", "Verifying"} => gs[key.Key].body \in OwnBytes(key.Key))

\* two keys with one staging path, both transferred, the first file left behind
C20_Witness ==
    /\ pc = "Done"
    /\ Len(decisions) = 2
    /\ \A n \in Decided : decisions[n].branch = "Transfer"
    /\ Base(decisions[1].key) = Base(decisions[2].key)
    /\ s3[KeyA].body # s3[KeyB].body
    /\ gs[KeyA].body = s3[KeyA].body
    /\ gs[KeyB].body = s3[KeyB].body
    /\ \E n \in 1..Len(ops) : ops[n] = [op |-> "remove", key |-> KeyA, ok |-> FALSE]


(* C17: the driver lists all objects under the source prefix: in a run that  *)
(* reaches Reporting every source object whose key has the prefix has been   *)
(* decided exactly once, however many there are, and no key outside the      *)
(* prefix is processed.                                                      *)
UnderPrefix == {k \in DOMAIN s3 : s3[k] # NoObject /\ HasPrefix(k, s3Prefix)}

C17_ListsAll ==
    /\ \A n \in Decided : decisions[n].key \in UnderPrefix
    /\ \A n, m \in Decided : decisions[n].key = decisions[m].key => n = m
    /\ pc \in {"Reporting", "Done"} => {decisions[n].key : n \in Decided} = UnderPrefix

(* C18: processing is strictly sequential: the pipeline of one object is     *)
(* over before the next object is stat-ed, so at most one object is in its   *)
(* pipeline and at most one staged file of the run is on disk.               *)
StagedFiles == {p \in DOMAIN disk : disk[p] # NoFile}

C18_OneAtATime ==
    /\ \A n \in 1..Len(ops) : KeyIndex(ops[n].key) <= Len(decisions)
    /\ \A n, m \in 1..Len(ops) : n <= m => KeyIndex(ops[n].key) <= KeyIndex(ops[m].key)
    /\ Cardinality(StagedFiles) <= 1

----------------------------------------------------------------------------
(* C13: a dry run and a normal run started from the same source listing and  *)
(* the same destination state give every listed object the same decision     *)
(* class, Skip or Transfer, and report the same byte total, although the     *)
(* normal run writes to the destination while it proceeds.                   *)
AfterDryRun == run > 1 /\ ~dryRun /\ prev # NoPrev

Class(d) == IF Skipped(d) THEN "Skip" ELSE "Transfer"

\* the stat of the n-th object had the same outcome in the dry run
SameStat(n) == decisions[n].gsErr = prev.decisions[n].gsErr

\* C13 (as amended): objects whose stat has the same outcome in both runs get
\* the same class, and with all outcomes the same the totals are equal
C13_DryRunAgrees ==
    AfterDryRun =>
        /\ \A n \in Decided :
              /\ n <= Len(prev.decisions)
              /\ decisions[n].key = prev.decisions[n].key
              /\ SameStat(n) => Class(decisions[n]) = Class(prev.decisions[n])
        /\ (pc \in {"Reporting", "Done"} /\ \A n \in Decided : SameStat(n)) =>
              /\ Len(decisions) = Len(prev.decisions)
              /\ <<amtTransferred>> = prev.reported

\* a normal run that transferred and reports what the dry run reported
C13_Witness ==
    /\ AfterDryRun
    /\ pc = "Done"
    /\ \A n \in Decided : SameStat(n)
    /\ \E n \in Decided : decisions[n].branch = "Transfer"
    /\ \E n \in Decided : Skipped(decisions[n])
    /\ gs # gs0
    /\ reported = prev.reported
    /\ reported # <<0>>

\* C13 as stated: the two runs agree whatever the stats returned
C13_Original ==
    (AfterDryRun /\ pc \in {"Reporting", "Done"}) =>
        /\ Len(decisions) = Len(prev.decisions)
        /\ \A n \in Decided : Class(decisions[n]) = Class(prev.decisions[n])
        /\ <<amtTransferred>> = prev.reported

----------------------------------------------------------------------------
(* C14: when a run is stopped at any step of any object's pipeline, by a     *)
(* termination from outside or a fatal abort, possibly leaving a staged file *)
(* and a partially written destination object, a later run on the unchanged  *)
(* source transfers again every object whose destination copy still          *)
(* mismatches, uploads nothing of the leftover staged file, and, if it       *)
(* reaches Reporting, leaves every listed key at the destination with a hash *)
(* or a size equal to the source object's.                                   *)
AfterStop == run > 1 /\ ~dryRun /\ prev # NoPrev /\ prev.pc \in {"Fatal", "Killed"}

\* what the comparison of lines 128-134 calls a mismatch
Mismatch(d) == d.gsErr \/ ~(HashEq(d) \/ SizeEq(d))

\* the pipeline of decision n is behind the run
Passed(n) == n < Len(decisions) \/ pc \in {"Reporting", "Done"}

\* the destination object of key k has the hash or the size of the source object
InSync(k) ==
    /\ gs[k] # NoObject
    /\ \/ Len(gs[k].body) = Len(s3[k].body)
       \/ EqualFold(StripQuotes(s3[k].etag), EncodeToString(MD5(gs[k].body)))

\* C14: the run after a stopped run repairs what the stopped run left
C14_Recoverable ==
    AfterStop =>
        /\ \A n \in Decided :
              Mismatch(decisions[n]) =>
                  /\ decisions[n].branch = "Transfer"
                  /\ Passed(n) =>
                        \E m \in 1..Len(ops) :
                            /\ ops[m] = [op |-> "upload", key |-> decisions[n].key, ok |-> TRUE]
                            /\ gs[decisions[n].key].body \in OwnBytes(decisions[n].key)
        /\ pc = "Downloading" => disk[localFilepath] = [body |-> <<>>]
        /\ pc \in {"Removing", "Verifying"} => gs[key.Key].body \in OwnBytes(key.Key)
        /\ pc \in {"Reporting", "Done"} =>
              \A n \in 1..Len(s3List) : InSync(s3List[n].Key)

\* a run killed during an upload left a staged file and a partial object; the
\* next run transferred that object again and finished
C14_Witness ==
    /\ AfterStop
    /\ prev.pc = "Killed"
    /\ prev.staged # {}
    /\ pc = "Done"
    /\ \E n \in Decided :
          /\ decisions[n].branch = "Transfer"
          /\ ~decisions[n].gsErr
          /\ decisions[n].gsAttrs.Size < decisions[n].size
          /\ Join(localDir, Base(decisions[n].key)) \in prev.staged
          /\ gs[decisions[n].key].body = s3[decisions[n].key].body

====
